---- MODULE Spec2Model ----
(***************************************************************************)
(* Model of GrammarBasedSpansText2SqlDatasetReader                         *)
(* (text2sql/data/dataset_readers/grammar_based_spans.py).                 *)
(*                                                                         *)
(* Three specifications share the module:                                  *)
(*   SpecSpans    - _fix_spans_coverage applied to bounded inputs           *)
(*   SpecInstance - text_to_instance / read_json_dict applied to bounded   *)
(*                  answers of the tokenizer and of the grammar engine     *)
(*   SpecRead     - the _read generator over a bounded data set, with the  *)
(*                  instance cache on disk surviving from read to read     *)
(*                                                                         *)
(* Python values are encoded as follows.  A str is a sequence of           *)
(* one-character strings.  An Optional value is a sequence of length at    *)
(* most one: <<>> is None and <<v>> is the value v.  A tuple (s, e) is     *)
(* <<s, e>>.  Python list positions are 0-based: position i of a list is   *)
(* element i + 1 of the sequence that models it.                           *)
(***************************************************************************)
EXTENDS Integers, Sequences, FiniteSets, TLC

VARIABLES
    \* ---- harness of _fix_spans_coverage (SpecSpans)
    fsc_spans,          \* argument spans: list of (s, e)
    fsc_length,         \* argument source_length
    fsc_called,         \* the call has returned
    fsc_ret,            \* the returned set
    \* ---- harness of text_to_instance / read_json_dict (SpecInstance)
    tti_example,        \* the example handed in, with the collaborators' answers
    tti_keep,           \* self._keep_if_unparsable
    tti_global,         \* nonterminals for which world.is_global_rule is True
    tti_via,            \* "none" | "text_to_instance" | "read_json_dict"
    tti_ret,            \* outcome of the call
    \* ---- the reader object and the _read generator (SpecRead)
    load_cache,         \* self._load_cache
    save_cache,         \* self._save_cache
    loading_limit,      \* self._loading_limit
    keep_if_unparsable, \* self._keep_if_unparsable
    dataset,            \* the files matched by the path: list of lists of examples
    cache_dir_exists,   \* os.path.isdir(cache_dir)
    cache,              \* cache_dir: total_cnt -> pickled instance
    pc,                 \* position of the generator
    file_idx,           \* position in files (1-based)
    ex_idx,             \* position in the current file (1-based)
    cnt,                \* number of loaded instances
    total_cnt,          \* names the cache files
    yielded,            \* instances yielded by the current read, in order
    last_ret,           \* outcome of the last text_to_instance call of _read
    n_reads,            \* reads started so far
    cur_read,           \* the reader's settings when the current read started
    prev_read           \* Optional summary of the read completed just before

fsc_vars == <<fsc_spans, fsc_length, fsc_called, fsc_ret>>
tti_vars == <<tti_example, tti_keep, tti_global, tti_via, tti_ret>>
reader_vars == <<load_cache, save_cache, loading_limit, keep_if_unparsable>>
read_vars == <<dataset, cache_dir_exists, cache, pc, file_idx, ex_idx, cnt,
               total_cnt, yielded, last_ret, n_reads, cur_read, prev_read>>
vars == <<fsc_vars, tti_vars, reader_vars, read_vars>>

\* ------------------------------------------------------------------ bounds
MaxTokens == 3
MaxSpans == 2
MaxCatalog == 3
MaxGold == 2
MaxFiles == 2
MaxExamples == 2
MaxLimit == 2
MaxTotal == 2
MaxReads == 2

\* ------------------------------------------------------- generic helpers
None == <<>>
Some(v) == <<v>>
IsNone(o) == o = <<>>
Value(o) == o[1]

SeqsUpTo(S, n) == UNION {[1..k -> S] : k \in 0..n}

Range(f) == {f[k] : k \in DOMAIN f}

\* ------------------------------------------------------------ Python str
\* str.startswith at a position: sep occurs in s at (1-based) position p
OccursAt(s, sep, p) ==
    /\ p + Len(sep) - 1 <= Len(s)
    /\ \A k \in 1..Len(sep) : s[p + k - 1] = sep[k]

\* str.find: first position at or after p where sep occurs, 0 when none
RECURSIVE Find(_, _, _)
Find(s, sep, p) ==
    IF p + Len(sep) - 1 > Len(s) THEN 0
    ELSE IF OccursAt(s, sep, p) THEN p
    ELSE Find(s, sep, p + 1)

\* str.split(sep) for a non-empty sep: the list of the pieces between the
\* non-overlapping occurrences of sep, scanning from the left
RECURSIVE Split(_, _)
Split(s, sep) ==
    LET p == Find(s, sep, 1) IN
    IF p = 0 THEN <<s>>
    ELSE <<SubSeq(s, 1, p - 1)>> \o Split(SubSeq(s, p + Len(sep), Len(s)), sep)

\* sep.join(parts)
RECURSIVE Join(_, _)
Join(parts, sep) ==
    IF Len(parts) = 0 THEN <<>>
    ELSE IF Len(parts) = 1 THEN parts[1]
    ELSE parts[1] \o sep \o Join(Tail(parts), sep)

SPACE == <<" ">>
ARROW == <<" ", "-", ">">>

\* ------------------------------------------------- production-rule strings
\* The rule strings the grammar engine can answer with: "LHS -> RHS".
RuleAB == <<"A", " ", "-", ">", " ", "B">>
RuleAC == <<"A", " ", "-", ">", " ", "C", " ", " ", "B">>
RuleBd == <<"B", " ", "-", ">", " ", "d">>
Rules == {RuleAB, RuleAC, RuleBd}
Nonterminals == {<<"A">>, <<"B">>}

\* ------------------------------------------------------ _fix_spans_coverage
\* new_spans with the end index left exclusive
new_spans_exclusive(spans) == spans

\* lines 276-278: new_spans.append((s, e-1)) for each (s, e), in order
RECURSIVE new_spans(_)
new_spans(spans) ==
    IF Len(spans) = 0 THEN <<>>
    ELSE <<<<spans[1][1], spans[1][2] - 1>>>> \o new_spans(Tail(spans))

\* lines 281-282: for i in range(n): spans_set.add((i, i))
RECURSIVE add_size_1_spans(_, _)
add_size_1_spans(spans_set, n) ==
    IF n <= 0 THEN spans_set
    ELSE add_size_1_spans(spans_set, n - 1) \cup {<<n - 1, n - 1>>}

_fix_spans_coverage(spans, source_length) ==
    add_size_1_spans(Range(new_spans(spans)), source_length)

\* --------------------------------------------------------- text_to_instance
\* Outcomes of a call: an Instance, the value None, or a raised exception.
NoFields == [tokens |-> <<>>, spans |-> {}, valid_actions |-> <<>>,
             action_sequence |-> <<>>]
Returned(fields) == [kind |-> "Instance", fields |-> fields]
ReturnedNone == [kind |-> "None", fields |-> NoFields]
Raised(exc) == [kind |-> exc, fields |-> NoFields]
NotCalled == [kind |-> "NotCalled", fields |-> NoFields]

\* line 219: nonterminal, _ = production_rule.split(' ->') unpacks exactly
\* two pieces, and raises ValueError otherwise
unpackable(production_rule) == Len(Split(production_rule, ARROW)) = 2

nonterminal_of(production_rule) == Split(production_rule, ARROW)[1]

\* the ProductionRuleField with is_global_rule asked about the whole rule
production_rule_field_whole_rule(production_rule, global) ==
    [rule |-> Join(Split(production_rule, SPACE), SPACE),
     is_global |-> production_rule \in global,
     nonterminal |-> nonterminal_of(production_rule)]

\* lines 219-223: the ProductionRuleField of one catalog rule
production_rule_field(production_rule, global) ==
    [rule |-> Join(Split(production_rule, SPACE), SPACE),
     is_global |-> nonterminal_of(production_rule) \in global,
     nonterminal |-> nonterminal_of(production_rule)]

\* lines 216-224: production_rule_fields, one append per rule of all_actions
RECURSIVE production_rule_fields(_, _)
production_rule_fields(all_actions, global) ==
    IF Len(all_actions) = 0 THEN <<>>
    ELSE LET n == Len(all_actions) IN
         Append(production_rule_fields(SubSeq(all_actions, 1, n - 1), global),
                production_rule_field(all_actions[n], global))

\* action_map counting the positions from 1
RECURSIVE action_map_from_1(_)
action_map_from_1(field_list) ==
    IF Len(field_list) = 0 THEN <<>>
    ELSE LET n == Len(field_list)
             before == action_map_from_1(SubSeq(field_list, 1, n - 1))
         IN  (field_list[n].rule :> n) @@ before

\* action_map keeping the first position of a rule that occurs again
RECURSIVE action_map_first(_)
action_map_first(field_list) ==
    IF Len(field_list) = 0 THEN <<>>
    ELSE LET n == Len(field_list)
             before == action_map_first(SubSeq(field_list, 1, n - 1))
         IN  before @@ (field_list[n].rule :> (n - 1))

\* lines 229-230: {action.rule: i for i, action in enumerate(field_list)};
\* a dict comprehension inserts in order, a later key overwriting an earlier
RECURSIVE action_map(_)
action_map(field_list) ==
    IF Len(field_list) = 0 THEN <<>>
    ELSE LET n == Len(field_list)
             before == action_map(SubSeq(field_list, 1, n - 1))
         IN  (field_list[n].rule :> (n - 1)) @@ before

\* the lookup as action_map.get(production_rule, -1)
lookup_default(amap, production_rule) ==
    IF production_rule \in DOMAIN amap THEN Some(amap[production_rule])
    ELSE Some(-1)

\* line 233: action_map[production_rule]; None stands for the KeyError
lookup(amap, production_rule) ==
    IF production_rule \in DOMAIN amap THEN Some(amap[production_rule])
    ELSE None

\* lines 232-233: one IndexField per rule of action_sequence, in order;
\* None when a lookup raised
RECURSIVE index_fields(_, _)
index_fields(action_sequence, amap) ==
    IF Len(action_sequence) = 0 THEN Some(<<>>)
    ELSE LET n == Len(action_sequence)
             before == index_fields(SubSeq(action_sequence, 1, n - 1), amap)
             here == lookup(amap, action_sequence[n])
         IN  IF IsNone(before) \/ IsNone(here) THEN None
             ELSE Some(Append(Value(before), Value(here)))

\* the index list left as it is when action_sequence is empty
sentinel_missing(indices, action_sequence) == indices

\* lines 234-235: if not action_sequence: index_fields = [IndexField(-1, ..)]
sentinel(indices, action_sequence) ==
    IF Len(action_sequence) = 0 THEN <<-1>> ELSE indices

\* the policy with every unparsable example kept
unparsable_policy_keep_all(action_sequence, keep) ==
    IF IsNone(action_sequence) THEN Some(<<>>) ELSE action_sequence

\* lines 209-213: the engine's answer under the keep_if_unparsable policy;
\* None stands for "return None"
unparsable_policy(action_sequence, keep) ==
    IF IsNone(action_sequence) /\ keep THEN Some(<<>>)
    ELSE IF IsNone(action_sequence) THEN None
    ELSE action_sequence

\* lines 215-241, once action_sequence and all_actions are bound
assemble(tokens, spans, action_sequence, all_actions, global) ==
    IF \E k \in 1..Len(all_actions) : ~unpackable(all_actions[k])
    THEN Raised("ValueError")
    ELSE LET valid_actions == production_rule_fields(all_actions, global)
             indices == index_fields(action_sequence, action_map(valid_actions))
         IN  IF IsNone(indices) THEN Raised("KeyError")
             ELSE Returned([tokens |-> tokens,
                            spans |-> spans,
                            valid_actions |-> valid_actions,
                            action_sequence |->
                                sentinel(Value(indices), action_sequence)])

\* lines 184-241.  ex carries the arguments and the collaborators' answers:
\*   tokens          the tokenizer's answer for ' '.join(query)
\*   sql             Optional
\*   action_sequence Optional, all_actions: the engine's answer for sql
\* spans is the Optional spans argument.
text_to_instance(ex, spans, keep, global) ==
    IF IsNone(spans) THEN Raised("TypeError")       \* line 277: for .. in None
    ELSE LET fixed == _fix_spans_coverage(Value(spans), Len(ex.tokens)) IN
         IF IsNone(ex.sql) THEN Raised("UnboundLocalError")     \* line 218
         ELSE LET policy == unparsable_policy(ex.action_sequence, keep) IN
              IF IsNone(policy) THEN ReturnedNone               \* line 213
              ELSE assemble(ex.tokens, fixed, Value(policy),
                            ex.all_actions, global)

\* lines 257-268: read_json_dict calls text_to_instance for the first record
\* of process_sql_data and passes no spans, so spans takes its default None
read_json_dict(ex, keep, global) == text_to_instance(ex, None, keep, global)

\* ------------------------------------------------ states of the idle parts
FscIdle ==
    /\ fsc_spans = <<>>
    /\ fsc_length = 0
    /\ fsc_called = FALSE
    /\ fsc_ret = {}

SomeSql == Some(<<"SELECT">>)

NoExample == [tokens |-> <<>>, spans |-> <<>>, sql |-> None,
              action_sequence |-> None, all_actions |-> <<>>]

TtiIdle ==
    /\ tti_example = NoExample
    /\ tti_keep = FALSE
    /\ tti_global = {}
    /\ tti_via = "none"
    /\ tti_ret = NotCalled

NoRead == [load_cache |-> FALSE, save_cache |-> FALSE, loading_limit |-> -1,
           cache_was_empty |-> TRUE]

ReadIdle ==
    /\ load_cache = FALSE
    /\ save_cache = FALSE
    /\ loading_limit = -1
    /\ keep_if_unparsable = FALSE
    /\ dataset = <<>>
    /\ cache_dir_exists = FALSE
    /\ cache = <<>>
    /\ pc = "idle"
    /\ file_idx = 0
    /\ ex_idx = 0
    /\ cnt = 0
    /\ total_cnt = -1
    /\ yielded = <<>>
    /\ last_ret = NotCalled
    /\ n_reads = 0
    /\ cur_read = NoRead
    /\ prev_read = None

\* ================================================================ SpecSpans
Positions == 0..MaxTokens
SpanLists == SeqsUpTo(Positions \X Positions, MaxSpans)

InitSpans ==
    /\ fsc_spans \in SpanLists
    /\ fsc_length \in 0..MaxTokens
    /\ fsc_called = FALSE
    /\ fsc_ret = {}
    /\ TtiIdle
    /\ ReadIdle

FixSpansCoverage ==
    /\ ~fsc_called
    /\ fsc_ret' = _fix_spans_coverage(fsc_spans, fsc_length)
    /\ fsc_called' = TRUE
    /\ UNCHANGED <<fsc_spans, fsc_length, tti_vars, reader_vars, read_vars>>

NextSpans == FixSpansCoverage

SpecSpans == InitSpans /\ [][NextSpans]_vars

\* C1: for every length L >= 0 and every list of half-open spans, the set
\* returned by _fix_spans_coverage holds (i, i) for every i in [0, L), holds
\* (s, e-1) for every input span (s, e), and holds nothing else; being a set
\* it holds no element twice.
C1_SpanClosure ==
    fsc_called =>
        /\ \A i \in 0..(fsc_length - 1) : <<i, i>> \in fsc_ret
        /\ \A k \in 1..Len(fsc_spans) :
               <<fsc_spans[k][1], fsc_spans[k][2] - 1>> \in fsc_ret
        /\ \A sp \in fsc_ret :
               \/ \E i \in 0..(fsc_length - 1) : sp = <<i, i>>
               \/ \E k \in 1..Len(fsc_spans) :
                      sp = <<fsc_spans[k][1], fsc_spans[k][2] - 1>>

\* The example of the span closure property: L = 3 and spans [(0, 2)].
C1_Witness ==
    /\ fsc_called
    /\ fsc_length = 3
    /\ fsc_spans = <<<<0, 2>>>>
    /\ fsc_ret = {<<0, 0>>, <<0, 1>>, <<1, 1>>, <<2, 2>>}

\* ============================================================= SpecInstance
\* the tokenizer's answers: no token, or the two tokens that the span (0, 2)
\* covers
TokenLists == {<<>>, <<"w", "w">>}
InstanceSpanLists == {<<>>, <<<<0, 2>>>>}
Catalogs == SeqsUpTo(Rules, MaxCatalog)
GoldSequences == SeqsUpTo(Rules, MaxGold)

InitInstance ==
    /\ tti_example \in [tokens : TokenLists,
                        spans : InstanceSpanLists,
                        sql : {None, SomeSql},
                        action_sequence : {None} \cup {Some(g) : g \in GoldSequences},
                        all_actions : Catalogs]
    /\ tti_keep \in BOOLEAN
    /\ tti_global \in SUBSET Nonterminals
    /\ tti_via = "none"
    /\ tti_ret = NotCalled
    /\ FscIdle
    /\ ReadIdle

\* A call of text_to_instance that supplies spans, as _read does (line 176)
TextToInstance ==
    /\ tti_via = "none"
    /\ tti_via' = "text_to_instance"
    /\ tti_ret' = text_to_instance(tti_example, Some(tti_example.spans),
                                   tti_keep, tti_global)
    /\ UNCHANGED <<tti_example, tti_keep, tti_global, fsc_vars, reader_vars,
                   read_vars>>

\* A call of read_json_dict; the record always carries json_dict['sql']
ReadJsonDict ==
    /\ tti_via = "none"
    /\ ~IsNone(tti_example.sql)
    /\ tti_via' = "read_json_dict"
    /\ tti_ret' = read_json_dict(tti_example, tti_keep, tti_global)
    /\ UNCHANGED <<tti_example, tti_keep, tti_global, fsc_vars, reader_vars,
                   read_vars>>

NextInstance == TextToInstance \/ ReadJsonDict

SpecInstance == InitInstance /\ [][NextInstance]_vars

\* ---- what the harness handed in and got back
EngineCalled ==       \* lines 198-208 were passed: the engine has answered
    /\ tti_via = "text_to_instance"
    /\ ~IsNone(tti_example.sql)
Catalog == tti_example.all_actions
HasGold == ~IsNone(tti_example.action_sequence)
Gold == Value(tti_example.action_sequence)
Indices == tti_ret.fields.action_sequence
ValidActions == tti_ret.fields.valid_actions
Distinct(seq) == \A i, j \in 1..Len(seq) : seq[i] = seq[j] => i = j
LastPosition(seq, v) ==
    CHOOSE j \in 1..Len(seq) :
        seq[j] = v /\ \A m \in 1..Len(seq) : seq[m] = v => m <= j

\* C2: for a catalog of pairwise distinct rules and a non-empty gold sequence
\* whose rules all occur in it, the index list has the length of the gold
\* sequence and catalog[index[k]] = gold[k] at every position k.
C2_IndexRoundTrip ==
    (/\ EngineCalled
     /\ HasGold
     /\ Distinct(Catalog)) =>
        ((Len(Gold) > 0 /\ Range(Gold) \subseteq Range(Catalog)) =>
            /\ tti_ret.kind = "Instance"
            /\ Len(Indices) = Len(Gold)
            /\ \A k \in 1..Len(Gold) :
                   /\ Indices[k] \in 0..(Len(Catalog) - 1)
                   /\ Catalog[Indices[k] + 1] = Gold[k])

\* The example of the round trip: catalog [A -> B, A -> C  B, B -> d] and
\* gold [A -> B, B -> d] give the indices [0, 2].
C2_Witness ==
    /\ EngineCalled
    /\ Catalog = <<RuleAB, RuleAC, RuleBd>>
    /\ tti_example.action_sequence = Some(<<RuleAB, RuleBd>>)
    /\ tti_ret.kind = "Instance"
    /\ Indices = <<0, 2>>

GoldEmpty ==
    \/ tti_example.action_sequence = Some(<<>>)
    \/ IsNone(tti_example.action_sequence) /\ tti_keep

\* C3: an empty gold sequence gives an instance whose action_sequence field
\* is exactly [-1], whatever the size of the catalog; a non-empty gold
\* sequence gives no index equal to -1.
C3_EmptySentinel ==
    /\ (EngineCalled /\ GoldEmpty) =>
           (tti_ret.kind = "Instance" /\ Indices = <<-1>>)
    /\ (tti_ret.kind = "Instance" /\ ~GoldEmpty) =>
           \A k \in 1..Len(Indices) : Indices[k] # -1

\* An empty gold sequence answered by the engine over an empty catalog.
C3_Witness ==
    /\ EngineCalled
    /\ tti_example.action_sequence = Some(<<>>)
    /\ Catalog = <<>>
    /\ tti_ret.kind = "Instance"
    /\ Indices = <<-1>>

\* C5: with keep_if_unparsable enabled and no derivation from the engine, the
\* instance has the index list [-1] and a catalog with one entry per engine
\* rule, in the engine's order, each entry carrying the rule, the nonterminal
\* before the arrow and is_global_rule of that nonterminal.
C5_KeepUnparsable ==
    (EngineCalled /\ tti_keep /\ ~HasGold) =>
        /\ tti_ret.kind = "Instance"
        /\ Indices = <<-1>>
        /\ Len(ValidActions) = Len(Catalog)
        /\ \A k \in 1..Len(Catalog) :
               LET nt == ValidActions[k].nonterminal IN
               /\ ValidActions[k].rule = Catalog[k]
               /\ Find(Catalog[k], ARROW, 1) = Len(nt) + 1
               /\ SubSeq(Catalog[k], 1, Len(nt)) = nt
               /\ ValidActions[k].is_global = (nt \in tti_global)

\* An unparsable example kept, with a global and a local nonterminal.
C5_Witness ==
    /\ EngineCalled /\ tti_keep /\ ~HasGold
    /\ Catalog = <<RuleBd, RuleAC, RuleAB>>
    /\ tti_global = {<<"B">>}
    /\ tti_ret.kind = "Instance"
    /\ ValidActions[1].is_global /\ ~ValidActions[2].is_global
    /\ ValidActions[2].nonterminal = <<"A">>

\* C6: a non-empty gold sequence with a rule that is absent from the catalog
\* makes text_to_instance raise the lookup error: no instance, no None, and
\* no default index for the missing rule.
C6_MissingRuleRaises ==
    (/\ EngineCalled
     /\ HasGold) =>
        ((\E k \in 1..Len(Gold) : Gold[k] \notin Range(Catalog)) =>
             tti_ret.kind = "KeyError")

\* A gold sequence whose second rule is missing from the catalog.
C6_Witness ==
    /\ EngineCalled
    /\ Catalog = <<RuleAB, RuleAC>>
    /\ tti_example.action_sequence = Some(<<RuleAB, RuleBd>>)
    /\ tti_ret.kind = "KeyError"

\* C7: read_json_dict supplies no spans; instance assembly then skips span
\* normalisation and produces an instance or None instead of failing.
C7_NoSpansNoFailure ==
    (/\ tti_via = "read_json_dict"
     /\ (HasGold => Range(Gold) \subseteq Range(Catalog))) =>
        tti_ret.kind \in {"Instance", "None"}

\* C8: when a rule string stands at several catalog positions, every gold
\* reference to it is emitted as the largest of those positions, and no
\* error is raised.
C8_LastOccurrence ==
    (/\ EngineCalled
     /\ HasGold) =>
        ((Len(Gold) > 0 /\ Range(Gold) \subseteq Range(Catalog)) =>
            /\ tti_ret.kind = "Instance"
            /\ Len(Indices) = Len(Gold)
            /\ \A k \in 1..Len(Gold) :
                   Indices[k] = LastPosition(Catalog, Gold[k]) - 1)

\* A -> B stands at positions 0 and 2 and is emitted as 2.
C8_Witness ==
    /\ EngineCalled
    /\ Catalog = <<RuleAB, RuleBd, RuleAB>>
    /\ tti_example.action_sequence = Some(<<RuleAB, RuleBd>>)
    /\ tti_ret.kind = "Instance"
    /\ Indices = <<2, 1>>

\* ================================================================= SpecRead
\* The examples process_sql_data can hand to _read: a parsable one, one the
\* grammar cannot derive, and one whose derivation uses a rule that the
\* engine's catalog lacks.
ExParsable ==
    [tokens |-> <<"w", "w">>, spans |-> <<<<0, 2>>>>, sql |-> SomeSql,
     action_sequence |-> Some(<<RuleAB, RuleBd>>),
     all_actions |-> <<RuleAB, RuleAC, RuleBd>>]
ExUnparsable ==
    [tokens |-> <<"w">>, spans |-> <<>>, sql |-> SomeSql,
     action_sequence |-> None,
     all_actions |-> <<RuleAB>>]
ExMismatch ==
    [tokens |-> <<"w">>, spans |-> <<>>, sql |-> SomeSql,
     action_sequence |-> Some(<<RuleBd>>),
     all_actions |-> <<RuleAB>>]
ReadExamples == {ExParsable, ExUnparsable, ExMismatch}
ReadGlobal == {<<"A">>}       \* the world's global nonterminals

Limits == {-1} \cup 0..MaxLimit
RECURSIVE TotalLen(_)
TotalLen(files) ==
    IF Len(files) = 0 THEN 0 ELSE Len(files[1]) + TotalLen(Tail(files))
Datasets ==
    {d \in SeqsUpTo(SeqsUpTo(ReadExamples, MaxExamples), MaxFiles) :
        TotalLen(d) <= MaxTotal}

\* lines 63-112: the constructor stores the settings
InitRead ==
    /\ load_cache \in BOOLEAN
    /\ save_cache \in BOOLEAN
    /\ loading_limit \in Limits
    /\ keep_if_unparsable \in BOOLEAN
    /\ dataset \in Datasets
    /\ cache_dir_exists = FALSE
    /\ cache = <<>>
    /\ pc = "idle"
    /\ file_idx = 0
    /\ ex_idx = 0
    /\ cnt = 0
    /\ total_cnt = -1
    /\ yielded = <<>>
    /\ last_ret = NotCalled
    /\ n_reads = 0
    /\ cur_read = NoRead
    /\ prev_read = None
    /\ FscIdle
    /\ TtiIdle

Finished == pc \in {"done", "raised"}

\* lines 63-112: a further reader object over the same files and cache_dir,
\* constructed from the same configuration with load_cache set anew
Construct ==
    /\ Finished
    /\ n_reads < MaxReads
    /\ load_cache' \in BOOLEAN
    /\ UNCHANGED <<save_cache, loading_limit, keep_if_unparsable>>
    /\ pc' = "idle"
    /\ yielded' = <<>>
    /\ last_ret' = NotCalled
    /\ cur_read' = NoRead
    /\ prev_read' = IF pc = "done"
                    THEN Some([settings |-> cur_read, yielded |-> yielded])
                    ELSE None
    /\ UNCHANGED <<dataset, cache_dir_exists, cache, file_idx, ex_idx, cnt,
                   total_cnt, n_reads, fsc_vars, tti_vars>>

\* lines 131-143: _read up to the loop over the files
ReadStart ==
    /\ pc \in {"idle", "done", "raised"}
    /\ n_reads < MaxReads
    /\ n_reads' = n_reads + 1
    /\ load_cache' = (load_cache /\ cache_dir_exists)          \* lines 133-137
    /\ cache_dir_exists' = (cache_dir_exists \/ save_cache)    \* lines 138-139
    /\ cnt' = 0                                                \* line 143
    /\ file_idx' = 0
    /\ ex_idx' = 0
    /\ total_cnt' = -1
    /\ yielded' = <<>>
    /\ last_ret' = NotCalled
    /\ cur_read' = [load_cache |-> load_cache, save_cache |-> save_cache,
                    loading_limit |-> loading_limit,
                    cache_was_empty |-> (~cache_dir_exists /\ cache = <<>>)]
    /\ prev_read' = IF pc = "done"
                    THEN Some([settings |-> cur_read, yielded |-> yielded])
                    ELSE IF pc = "idle" THEN prev_read ELSE None
    /\ pc' = "files"
    /\ UNCHANGED <<save_cache, loading_limit, keep_if_unparsable, dataset,
                   cache, fsc_vars, tti_vars>>

\* the next file is opened and cnt starts again at 0 with it
OpenFile_reset_cnt ==
    /\ pc = "files"
    /\ file_idx < Len(dataset)
    /\ file_idx' = file_idx + 1
    /\ total_cnt' = -1
    /\ cnt' = 0
    /\ ex_idx' = 0
    /\ pc' = "examples"
    /\ UNCHANGED <<reader_vars, dataset, cache_dir_exists, cache, yielded,
                   last_ret, n_reads, cur_read, prev_read, fsc_vars, tti_vars>>

\* lines 144-147: the next file is opened and total_cnt starts again at -1
OpenFile ==
    /\ pc = "files"
    /\ file_idx < Len(dataset)
    /\ file_idx' = file_idx + 1
    /\ total_cnt' = -1
    /\ ex_idx' = 0
    /\ pc' = "examples"
    /\ UNCHANGED <<reader_vars, dataset, cache_dir_exists, cache, cnt, yielded,
                   last_ret, n_reads, cur_read, prev_read, fsc_vars, tti_vars>>

\* line 144: the files are exhausted and the generator returns
ReadDone ==
    /\ pc = "files"
    /\ file_idx = Len(dataset)
    /\ pc' = "done"
    /\ UNCHANGED <<reader_vars, dataset, cache_dir_exists, cache, file_idx,
                   ex_idx, cnt, total_cnt, yielded, last_ret, n_reads,
                   cur_read, prev_read, fsc_vars, tti_vars>>

HasExample == pc = "examples" /\ ex_idx < Len(dataset[file_idx])
CurrentExample == dataset[file_idx][ex_idx + 1]

\* line 148: process_sql_data has no further record for this file
EndOfFile ==
    /\ pc = "examples"
    /\ ex_idx = Len(dataset[file_idx])
    /\ pc' = "files"
    /\ UNCHANGED <<reader_vars, dataset, cache_dir_exists, cache, file_idx,
                   ex_idx, cnt, total_cnt, yielded, last_ret, n_reads,
                   cur_read, prev_read, fsc_vars, tti_vars>>

\* lines 156-160: the limit is reached, break out of the loop over the records
LimitBreak ==
    /\ HasExample
    /\ total_cnt' = total_cnt + 1
    /\ ex_idx' = ex_idx + 1
    /\ loading_limit = cnt
    /\ pc' = "files"
    /\ UNCHANGED <<reader_vars, dataset, cache_dir_exists, cache, file_idx,
                   cnt, yielded, last_ret, n_reads, cur_read, prev_read,
                   fsc_vars, tti_vars>>

\* lines 161-165: instance-{total_cnt}.pt loads, the instance is yielded
CacheHit ==
    /\ HasExample
    /\ total_cnt' = total_cnt + 1
    /\ ex_idx' = ex_idx + 1
    /\ loading_limit # cnt
    /\ load_cache
    /\ (total_cnt + 1) \in DOMAIN cache
    /\ cnt' = cnt + 1
    /\ yielded' = Append(yielded, cache[total_cnt + 1])
    /\ UNCHANGED <<reader_vars, dataset, cache_dir_exists, cache, pc,
                   file_idx, last_ret, n_reads, cur_read, prev_read,
                   fsc_vars, tti_vars>>

\* lines 161-168: instance-{total_cnt}.pt does not load, the record is passed
CacheMiss ==
    /\ HasExample
    /\ total_cnt' = total_cnt + 1
    /\ ex_idx' = ex_idx + 1
    /\ loading_limit # cnt
    /\ load_cache
    /\ (total_cnt + 1) \notin DOMAIN cache
    /\ UNCHANGED <<reader_vars, dataset, cache_dir_exists, cache, pc,
                   file_idx, cnt, yielded, last_ret, n_reads, cur_read,
                   prev_read, fsc_vars, tti_vars>>

\* lines 169-181: text_to_instance is called for the record; an instance is
\* counted, cached under instance-{total_cnt}.pt when save_cache, and yielded;
\* None is skipped; an exception leaves the generator
Compute ==
    /\ HasExample
    /\ total_cnt' = total_cnt + 1
    /\ ex_idx' = ex_idx + 1
    /\ loading_limit # cnt
    /\ ~load_cache
    /\ LET instance == text_to_instance(CurrentExample,
                                        Some(CurrentExample.spans),
                                        keep_if_unparsable, ReadGlobal)
       IN  /\ last_ret' = instance
           /\ IF instance.kind = "Instance"
              THEN /\ cnt' = cnt + 1
                   /\ cache' = IF save_cache
                               THEN ((total_cnt + 1) :> instance.fields) @@ cache
                               ELSE cache
                   /\ yielded' = Append(yielded, instance.fields)
                   /\ pc' = pc
              ELSE /\ pc' = IF instance.kind = "None" THEN pc ELSE "raised"
                   /\ UNCHANGED <<cnt, cache, yielded>>
    /\ UNCHANGED <<reader_vars, dataset, cache_dir_exists, file_idx, n_reads,
                   cur_read, prev_read, fsc_vars, tti_vars>>

NextRead ==
    \/ Construct
    \/ ReadStart
    \/ OpenFile
    \/ ReadDone
    \/ EndOfFile
    \/ LimitBreak
    \/ CacheHit
    \/ CacheMiss
    \/ Compute

SpecRead == InitRead /\ [][NextRead]_vars

\* C4: with keep_if_unparsable disabled, a record for which the engine has no
\* derivation makes text_to_instance return None without raising; _read
\* yields nothing for it, caches nothing, and goes on with the next record.
C4_DropUnparsable ==
    [][(/\ HasExample
        /\ ~load_cache
        /\ loading_limit # cnt
        /\ ~keep_if_unparsable
        /\ IsNone(CurrentExample.action_sequence))
       => (/\ last_ret'.kind = "None"
           /\ yielded' = yielded
           /\ cnt' = cnt
           /\ cache' = cache
           /\ pc' = "examples"
           /\ file_idx' = file_idx
           /\ ex_idx' = ex_idx + 1)]_vars

\* A file with an unparsable record before a parsable one, read to the end:
\* the first is dropped and the second is yielded.
C4_Witness ==
    /\ pc = "done"
    /\ ~keep_if_unparsable
    /\ ~cur_read.load_cache
    /\ dataset = <<<<ExUnparsable, ExParsable>>>>
    /\ Len(yielded) = 1
    /\ last_ret.kind = "Instance"

\* C9: with loading_limit = n >= 0 a read never yields more than n instances;
\* cnt counts the yielded instances over all the files, and once it equals
\* the limit no later record or file yields anything.
C9_LimitRespected ==
    /\ [](loading_limit >= 0 =>
             /\ Len(yielded) <= loading_limit
             /\ (pc # "idle" => cnt = Len(yielded)))
    /\ [][(/\ loading_limit >= 0
           /\ cnt = loading_limit
           /\ pc \in {"files", "examples"})
          => yielded' = yielded]_vars

\* Two files with one parsable record each and a limit of 1: the limit was
\* reached in the first file, and the read ended with the record of the
\* second file not yielded.
C9_Witness ==
    /\ pc = "done"
    /\ ~cur_read.load_cache
    /\ loading_limit = 1
    /\ dataset = <<<<ExParsable>>, <<ExParsable>>>>
    /\ file_idx = 2
    /\ ex_idx = 1
    /\ cnt = 1
    /\ Len(yielded) = 1

\* C10: from an empty cache directory, a complete read with save_cache and
\* without load_cache, followed by a read of the same path with load_cache,
\* yields the same instances in the same order, also over several files and
\* with some records dropped as unparsable.
C10_CacheRoundTrip ==
    (/\ pc = "done"
     /\ ~IsNone(prev_read)
     /\ cur_read.load_cache) =>
        ((/\ Value(prev_read).settings.save_cache
          /\ ~Value(prev_read).settings.load_cache
          /\ Value(prev_read).settings.cache_was_empty) =>
             yielded = Value(prev_read).yielded)

====
